---- MODULE Spec2Model ----
(***************************************************************************)
(* The search endpoint (api/src/functions/search.ts) and the search form   *)
(* that calls it (frontend App, reproduced in README.md).                  *)
(*                                                                         *)
(* A JavaScript string is a sequence of one-character strings.  A          *)
(* JavaScript number is a record [kind, n, d]: kind "nan", or kind "fin"   *)
(* with value n / d, d a power of ten.  Query parameters are a sequence of *)
(* <<name, value>> pairs, as URLSearchParams holds them.                   *)
(***************************************************************************)
EXTENDS Integers, Sequences, FiniteSets, Bags, TLC

VARIABLES
    index,     \* the persisted vector index: the set of chunk ids it holds
    pending,   \* bag of requests that reached the handler and are not yet handled
    done,      \* set of [req, resp]: handled requests whose response is not yet delivered
    q,         \* App state: the query input's text
    k,         \* App state: Number(text of the k input)
    loading,   \* App state
    error,     \* App state
    results,   \* App state
    inflight,  \* bag of fetches the form has issued and that have not settled
    last       \* what the latest onSearch call did: "none", "blank" or "sent"

vars == <<index, pending, done, q, k, loading, error, results, inflight, last>>

serverVars == <<index, pending, done>>
appVars == <<q, k, loading, error, results, inflight, last>>

----------------------------------------------------------------------------
(* Bounds *)

MaxQLen == 2      \* longest raw q of a direct request
MaxKLen == 3      \* longest raw k of a direct request
MaxIndex == 2     \* most entries the index holds
MaxReqs == 2      \* most requests concurrently at the handler
MaxInflight == 2  \* most fetches of the form concurrently in flight

QAlphabet == {"a", " "}
KAlphabet == {"0", "2", "5", "9", "-", ".", "x", " "}

Strs(A, n) == UNION {[1..m -> A] : m \in 0..n}

----------------------------------------------------------------------------
(* JavaScript strings and numbers *)

IsWhite(c) == c = " "

RECURSIVE TrimStart(_)
TrimStart(s) == IF s # <<>> /\ IsWhite(s[1]) THEN TrimStart(Tail(s)) ELSE s

RECURSIVE TrimEnd(_)
TrimEnd(s) ==
    IF s # <<>> /\ IsWhite(s[Len(s)]) THEN TrimEnd(SubSeq(s, 1, Len(s) - 1)) ELSE s

\* String.prototype.trim
trim(s) == TrimEnd(TrimStart(s))

Digits == <<"0", "1", "2", "3", "4", "5", "6", "7", "8", "9">>

IsDigit(c) == \E i \in 1..10 : Digits[i] = c

DigitVal(c) == (CHOOSE i \in 1..10 : Digits[i] = c) - 1

RECURSIVE Pow10(_)
Pow10(e) == IF e = 0 THEN 1 ELSE 10 * Pow10(e - 1)

NaN == [kind |-> "nan", n |-> 0, d |-> 1]

RECURSIVE Norm(_, _)
Norm(n, d) ==
    IF d > 1 /\ n % 10 = 0 THEN Norm(n \div 10, d \div 10)
    ELSE [kind |-> "fin", n |-> n, d |-> d]

\* The digits of s that are not the decimal point, read as one integer.
RECURSIVE DigitsValue(_, _)
DigitsValue(s, acc) ==
    IF s = <<>> THEN acc
    ELSE IF s[1] = "." THEN DigitsValue(Tail(s), acc)
    ELSE DigitsValue(Tail(s), 10 * acc + DigitVal(s[1]))

\* StrUnsignedDecimalLiteral without an exponent: digits with at most one point
\* and at least one digit ("5.", ".5" and "2.5" are literals, "." is not).
IsDecimalLiteral(s) ==
    /\ \A i \in 1..Len(s) : IsDigit(s[i]) \/ s[i] = "."
    /\ Cardinality({i \in 1..Len(s) : s[i] = "."}) <= 1
    /\ \E i \in 1..Len(s) : IsDigit(s[i])

FractionDigits(s) ==
    IF \E i \in 1..Len(s) : s[i] = "."
    THEN Len(s) - (CHOOSE i \in 1..Len(s) : s[i] = ".")
    ELSE 0

\* Number(s) for a string s: white space is trimmed, the empty string is 0, a
\* signed decimal literal is its value, anything else is NaN.  (Exponents, hex
\* literals and "Infinity" need characters outside the alphabets used here.)
Number(s) ==
    LET t == trim(s)
        signed == t # <<>> /\ t[1] \in {"-", "+"}
        body == IF signed THEN Tail(t) ELSE t
        sign == IF signed /\ t[1] = "-" THEN -1 ELSE 1
    IN  IF t = <<>> THEN Norm(0, 1)
        ELSE IF ~IsDecimalLiteral(body) THEN NaN
        ELSE Norm(sign * DigitsValue(body, 0), Pow10(FractionDigits(body)))

Number_isFinite(x) == x.kind = "fin"

\* Math.floor of a finite number
Math_floor(x) == x.n \div x.d

Math_min(a, b) == IF a < b THEN a ELSE b

Math_max(a, b) == IF a > b THEN a ELSE b

\* String(i) for an integer i
RECURSIVE NatToString(_)
NatToString(i) ==
    IF i < 10 THEN <<Digits[i + 1]>>
    ELSE NatToString(i \div 10) \o <<Digits[(i % 10) + 1]>>

String(i) == IF i < 0 THEN <<"-">> \o NatToString(-i) ELSE NatToString(i)

----------------------------------------------------------------------------
(* api/src/functions/search.ts *)

DefaultK == 8
MinK == 1
MaxK == 25

\* clampK with the lower clamp forgotten.
clampK_noLower(x) ==
    IF ~Number_isFinite(x) THEN DefaultK
    ELSE Math_min(MaxK, Math_floor(x))

\* clampK with the upper clamp forgotten.
clampK_noUpper(x) ==
    IF ~Number_isFinite(x) THEN DefaultK
    ELSE Math_max(MinK, Math_floor(x))

\* clampK that lets a NaN fall to the lower end instead of the default.
clampK_nanToMin(x) ==
    IF ~Number_isFinite(x) THEN MinK
    ELSE Math_max(MinK, Math_min(MaxK, Math_floor(x)))

clampK(x) ==
    IF ~Number_isFinite(x) THEN DefaultK
    ELSE Math_max(MinK, Math_min(MaxK, Math_floor(x)))

\* URLSearchParams.get(name) || dflt: the first value under name, or dflt when
\* there is none or it is the empty string.
GetOr(query, name, dflt) ==
    LET hits == {i \in 1..Len(query) : query[i][1] = name}
    IN  IF hits = {} THEN dflt
        ELSE LET v == query[CHOOSE i \in hits : \A j \in hits : i <= j][2]
             IN  IF v = <<>> THEN dflt ELSE v

ParamQ == <<"q">>
ParamK == <<"k">>

MissingQ == "Missing required query param: q"

\* search that tests q before trimming it.
search_noTrim(query) ==
    LET qq == GetOr(query, ParamQ, <<>>)
        kk == clampK(Number(GetOr(query, ParamK, <<"8">>)))
    IN  IF qq = <<>>
        THEN [status |-> 400, jsonBody |-> [error |-> MissingQ]]
        ELSE [status |-> 200, jsonBody |-> [q |-> trim(qq), k |-> kk, results |-> <<>>]]

\* search that returns every index entry, nearest first, without cutting at k.
search_allEntries(query) ==
    LET qq == trim(GetOr(query, ParamQ, <<>>))
        kk == clampK(Number(GetOr(query, ParamK, <<"8">>)))
        all == [i \in 1..Cardinality(index) |-> [id |-> i, distance |-> i]]
    IN  IF qq = <<>>
        THEN [status |-> 400, jsonBody |-> [error |-> MissingQ]]
        ELSE [status |-> 200, jsonBody |-> [q |-> qq, k |-> kk, results |-> all]]

\* search that reports an empty index as an error.
search_emptyIsError(query) ==
    LET qq == trim(GetOr(query, ParamQ, <<>>))
        kk == clampK(Number(GetOr(query, ParamK, <<"8">>)))
    IN  IF qq = <<>>
        THEN [status |-> 400, jsonBody |-> [error |-> MissingQ]]
        ELSE IF index = {}
        THEN [status |-> 404, jsonBody |-> [error |-> "index is empty"]]
        ELSE [status |-> 200, jsonBody |-> [q |-> qq, k |-> kk, results |-> <<>>]]

\* The handler's response to a request with the given query parameters.
search(query) ==
    LET qq == trim(GetOr(query, ParamQ, <<>>))
        kk == clampK(Number(GetOr(query, ParamK, <<"8">>)))
    IN  IF qq = <<>>
        THEN [status |-> 400, jsonBody |-> [error |-> MissingQ]]
        ELSE [status |-> 200, jsonBody |-> [q |-> qq, k |-> kk, results |-> <<>>]]

\* A handler that keeps every query it served as a new entry of the index.
Handle_storesQuery(r) ==
    /\ BagIn(r, pending)
    /\ pending' = pending (-) SetToBag({r})
    /\ done' = done \cup {[req |-> r, resp |-> search(r)]}
    /\ index' = index \cup {Cardinality(index) + 1}
    /\ UNCHANGED appVars

\* One invocation of the handler: it reads its request and answers; it touches
\* neither the index nor any other request.
Handle(r) ==
    /\ BagIn(r, pending)
    /\ pending' = pending (-) SetToBag({r})
    /\ done' = done \cup {[req |-> r, resp |-> search(r)]}
    /\ UNCHANGED <<index, appVars>>

----------------------------------------------------------------------------
(* Direct requests to the endpoint, one at a time *)

QueryOf(hasQ, qs, hasK, ks) ==
    (IF hasQ THEN <<<<ParamQ, qs>>>> ELSE <<>>) \o (IF hasK THEN <<<<ParamK, ks>>>> ELSE <<>>)

RawQs == Strs(QAlphabet, MaxQLen)
RawKs == Strs(KAlphabet, MaxKLen)

Requests ==
    {QueryOf(TRUE, qs, TRUE, ks) : qs \in RawQs, ks \in RawKs}
        \cup {QueryOf(TRUE, qs, FALSE, <<>>) : qs \in RawQs}
        \cup {QueryOf(FALSE, <<>>, TRUE, ks) : ks \in RawKs}
        \cup {<<>>}

Indexes == {1..n : n \in 0..MaxIndex}

AppIdle ==
    /\ q = <<>>
    /\ k = Norm(8, 1)
    /\ loading = FALSE
    /\ error = <<>>
    /\ results = <<>>
    /\ inflight = EmptyBag
    /\ last = "none"

Init ==
    /\ index \in Indexes
    /\ \E r \in Requests : pending = SetToBag({r})
    /\ done = {}
    /\ AppIdle

Next == \E r \in BagToSet(pending) : Handle(r)

Spec == Init /\ [][Next]_vars

----------------------------------------------------------------------------
(* Direct requests to the endpoint, several at a time *)

ConcQs == {<<>>, <<"a">>}
ConcKs == {<<"0">>, <<"9", "9">>, <<"x">>}
ConcRequests == {QueryOf(TRUE, qs, TRUE, ks) : qs \in ConcQs, ks \in ConcKs} \cup {<<>>}

\* A request reaches the handler while others may still be waiting.
Arrive(r) ==
    /\ BagCardinality(pending) < MaxReqs
    /\ pending' = pending (+) SetToBag({r})
    /\ UNCHANGED <<index, done, appVars>>

\* The response of a handled request reaches its caller.
Deliver(d) ==
    /\ d \in done
    /\ done' = done \ {d}
    /\ UNCHANGED <<index, pending, appVars>>

InitConc ==
    /\ index \in Indexes
    /\ pending = EmptyBag
    /\ done = {}
    /\ AppIdle

NextConc ==
    \/ \E r \in ConcRequests : Arrive(r)
    \/ \E r \in BagToSet(pending) : Handle(r)
    \/ \E d \in done : Deliver(d)

SpecConc == InitConc /\ [][NextConc]_vars

----------------------------------------------------------------------------
(* The URL the form builds and the handler's platform parses *)

\* Characters encodeURIComponent escapes, with the two hex digits of each.
PercentCodes ==
    {<<" ", <<"2", "0">>>>, <<"%", <<"2", "5">>>>, <<"&", <<"2", "6">>>>,
     <<"+", <<"2", "B">>>>, <<"=", <<"3", "D">>>>}

IsReserved(c) == \E pc \in PercentCodes : pc[1] = c

CodeOf(c) == (CHOOSE pc \in PercentCodes : pc[1] = c)[2]

IsCode(h) == \E pc \in PercentCodes : pc[2] = h

CharOf(h) == (CHOOSE pc \in PercentCodes : pc[2] = h)[1]

RECURSIVE encodeURIComponent(_)
encodeURIComponent(s) ==
    IF s = <<>> THEN <<>>
    ELSE (IF IsReserved(s[1]) THEN <<"%">> \o CodeOf(s[1]) ELSE <<s[1]>>)
             \o encodeURIComponent(Tail(s))

\* The query string of `/api/search?q=${...}&k=${...}`
SearchUrl(qq, kk) ==
    <<"q", "=">> \o encodeURIComponent(qq)
        \o <<"&", "k", "=">> \o encodeURIComponent(String(kk))

\* Decoding of one name or value of a query string: "+" is a space, "%XX" is
\* the character with that code, anything else stands for itself.
RECURSIVE FormDecode(_)
FormDecode(s) ==
    IF s = <<>> THEN <<>>
    ELSE IF s[1] = "+" THEN <<" ">> \o FormDecode(Tail(s))
    ELSE IF s[1] = "%" /\ Len(s) >= 3 /\ IsCode(<<s[2], s[3]>>)
    THEN <<CharOf(<<s[2], s[3]>>)>> \o FormDecode(SubSeq(s, 4, Len(s)))
    ELSE <<s[1]>> \o FormDecode(Tail(s))

FirstIndex(s, c) ==
    IF \E i \in 1..Len(s) : s[i] = c
    THEN CHOOSE i \in 1..Len(s) : s[i] = c /\ \A j \in 1..(i - 1) : s[j] # c
    ELSE 0

RECURSIVE SplitOn(_, _)
SplitOn(s, c) ==
    LET i == FirstIndex(s, c)
    IN  IF i = 0 THEN <<s>>
        ELSE <<SubSeq(s, 1, i - 1)>> \o SplitOn(SubSeq(s, i + 1, Len(s)), c)

ParsePair(p) ==
    LET i == FirstIndex(p, "=")
    IN  IF i = 0 THEN <<FormDecode(p), <<>>>>
        ELSE <<FormDecode(SubSeq(p, 1, i - 1)), FormDecode(SubSeq(p, i + 1, Len(p)))>>

\* request.query: the pairs of the query string, in order.
ParseQuery(url) ==
    LET pieces == SelectSeq(SplitOn(url, "&"), LAMBDA p : p # <<>>)
    IN  [i \in 1..Len(pieces) |-> ParsePair(pieces[i])]

----------------------------------------------------------------------------
(* The search form: App in frontend/src/App.tsx *)

\* The form's clampK with the upper clamp forgotten.
App_clampK_noUpper(x) ==
    IF ~Number_isFinite(x) THEN 8
    ELSE Math_max(1, Math_floor(x))

App_clampK(x) ==
    IF ~Number_isFinite(x) THEN 8
    ELSE Math_max(1, Math_min(25, Math_floor(x)))

TypedQs == {<<>>, <<" ">>, <<"a">>, <<" ", "a", " ">>, <<"+", "&">>}
TypedKs == {<<>>, <<"0">>, <<"9", "9">>, <<"x">>, <<"2", ".", "5">>}

\* onChange of the query input
SetQ(s) ==
    /\ q' = s
    /\ UNCHANGED <<serverVars, k, loading, error, results, inflight, last>>

\* onChange of the k input
SetK(s) ==
    /\ k' = Number(s)
    /\ UNCHANGED <<serverVars, q, loading, error, results, inflight, last>>

canSearch == Len(trim(q)) > 0 /\ ~loading

\* onSearch up to its await of fetch.
onSearch ==
    LET qq == trim(q)
        kk == App_clampK(k)
    IN  IF qq = <<>>
        THEN /\ last' = "blank"
             /\ UNCHANGED <<serverVars, q, k, loading, error, results, inflight>>
        ELSE /\ BagCardinality(inflight) < MaxInflight
             /\ loading' = TRUE
             /\ error' = <<>>
             /\ results' = <<>>
             /\ inflight' = inflight (+) SetToBag({[url |-> SearchUrl(qq, kk),
                                                    qq |-> qq, kk |-> kk]})
             /\ last' = "sent"
             /\ UNCHANGED <<serverVars, q, k>>

\* onClick of the Search button, which is disabled unless canSearch
ClickSearch == canSearch /\ onSearch

\* onKeyDown of the query input with key Enter
PressEnter == onSearch

\* `API error (${r.status}): ${txt || r.statusText}`
ApiError(status, text) == <<"API error (">> \o String(status) \o <<"): ", text>>

\* Response.ok
IsOk(status) == status \in 200..299

\* The rest of onSearch whose finally clause runs only after a success.
Settled_noFinally(f, outcome) ==
    /\ BagIn(f, inflight)
    /\ inflight' = inflight (-) SetToBag({f})
    /\ IF outcome.kind = "rejected"
       THEN /\ error' = outcome.message
            /\ UNCHANGED <<results, loading>>
       ELSE IF ~IsOk(outcome.status)
       THEN /\ error' = ApiError(outcome.status, outcome.text)
            /\ UNCHANGED <<results, loading>>
       ELSE /\ results' = outcome.data.results
            /\ loading' = FALSE
            /\ UNCHANGED error
    /\ UNCHANGED <<serverVars, q, k, last>>

\* The rest of onSearch, from the settling of fetch to the end of finally.
Settled(f, outcome) ==
    /\ BagIn(f, inflight)
    /\ inflight' = inflight (-) SetToBag({f})
    /\ IF outcome.kind = "rejected"
       THEN /\ error' = outcome.message
            /\ UNCHANGED results
       ELSE IF ~IsOk(outcome.status)
       THEN /\ error' = ApiError(outcome.status, outcome.text)
            /\ UNCHANGED results
       ELSE /\ results' = outcome.data.results
            /\ UNCHANGED error
    /\ loading' = FALSE
    /\ UNCHANGED <<serverVars, q, k, last>>

\* What fetch resolves to when the request reaches the handler.
HandlerOutcome(f) ==
    LET resp == search(ParseQuery(f.url))
    IN  IF resp.status = 200
        THEN [kind |-> "response", status |-> resp.status, data |-> resp.jsonBody]
        ELSE [kind |-> "response", status |-> resp.status, text |-> resp.jsonBody.error]

\* fetch resolves with the handler's response.
FetchResolves(f) == Settled(f, HandlerOutcome(f))

\* fetch resolves with a non-ok status that did not come from the handler.
FetchResolvesNotOk(f) ==
    Settled(f, [kind |-> "response", status |-> 500, text |-> "Internal Server Error"])

\* fetch rejects: the network failed.
FetchRejects(f) == Settled(f, [kind |-> "rejected", message |-> <<"Failed to fetch">>])

InitApp ==
    /\ index \in {{}, 1..MaxIndex}
    /\ pending = EmptyBag
    /\ done = {}
    /\ AppIdle

NextApp ==
    \/ \E s \in TypedQs : SetQ(s)
    \/ \E s \in TypedKs : SetK(s)
    \/ ClickSearch
    \/ PressEnter
    \/ \E f \in BagToSet(inflight) : FetchResolves(f)
    \/ \E f \in BagToSet(inflight) : FetchResolvesNotOk(f)
    \/ \E f \in BagToSet(inflight) : FetchRejects(f)

SpecApp == InitApp /\ [][NextApp]_vars

\* A fetch the browser has issued settles: it resolves or it rejects.
SettleSome ==
    \E f \in BagToSet(inflight) :
        FetchRejects(f) \/ FetchResolvesNotOk(f) \/ FetchResolves(f)

FairSpecApp == SpecApp /\ WF_vars(SettleSome)

----------------------------------------------------------------------------
(* What a request asked for, read off its raw parameters *)

HasParam(query, name) == \E i \in 1..Len(query) : query[i][1] = name

\* The raw value of the first parameter called name (name must be present).
RawParam(query, name) ==
    query[CHOOSE i \in 1..Len(query) :
              /\ query[i][1] = name
              /\ \A j \in 1..(i - 1) : query[j][1] # name][2]

\* q is missing, empty or only white space.
BlankQ(query) ==
    \/ ~HasParam(query, ParamQ)
    \/ \A i \in 1..Len(RawParam(query, ParamQ)) : RawParam(query, ParamQ)[i] = " "

\* An integer in decimal notation: an optional minus sign, then digits only.
IsIntegerText(s) ==
    LET body == IF s # <<>> /\ s[1] = "-" THEN Tail(s) ELSE s
    IN  body # <<>> /\ \A i \in 1..Len(body) : IsDigit(body[i])

RECURSIVE IntegerOfText(_)
IntegerOfText(s) ==
    IF s[1] = "-" THEN -IntegerOfText(Tail(s))
    ELSE IF Len(s) = 1 THEN DigitVal(s[1])
    ELSE 10 * IntegerOfText(SubSeq(s, 1, Len(s) - 1)) + DigitVal(s[Len(s)])

\* k is present and is not a number: Number() of it is NaN.
NonNumericK(query) ==
    HasParam(query, ParamK) /\ Number(RawParam(query, ParamK)).kind = "nan"

Success(d) == d.resp.status = 200

SortedByDistance(rs) ==
    \A i \in 1..Len(rs) : \A j \in i..Len(rs) : rs[i].distance <= rs[j].distance

----------------------------------------------------------------------------
(* Claims about the handler *)

\* C1: whatever the k parameter of a request (absent, empty, integer, negative,
\* above 25, non-numeric), the k of a successful response is an integer in 1..25.
C1_KInRange == \A d \in done : Success(d) => d.resp.jsonBody.k \in 1..25

C1_Witness ==
    \E d \in done :
        /\ Success(d)
        /\ HasParam(d.req, ParamK)
        /\ RawParam(d.req, ParamK) = <<"-", ".", "5">>
        /\ d.resp.jsonBody.k = 1

\* C2: a request with a non-empty q and an integer k is answered with success;
\* the k returned is 25 when the requested k is above 25, 1 when it is below 1,
\* and the requested k itself when it lies in 1..25.
C2_IntegerKClamped ==
    \A d \in done :
        (/\ ~BlankQ(d.req)
         /\ HasParam(d.req, ParamK)
         /\ IsIntegerText(RawParam(d.req, ParamK)))
        => LET v == IntegerOfText(RawParam(d.req, ParamK))
           IN  /\ Success(d)
               /\ d.resp.jsonBody.k = IF v > 25 THEN 25 ELSE IF v < 1 THEN 1 ELSE v

C2_Witness ==
    /\ \E d \in done :
        /\ ~BlankQ(d.req)
        /\ HasParam(d.req, ParamK)
        /\ RawParam(d.req, ParamK) = <<"2", "0", "0">>
        /\ Success(d)
        /\ d.resp.jsonBody.k = 25

\* C3: a request whose q is missing, empty or only white space is answered with
\* status 400 and an error message, never with a success carrying results,
\* whatever its k.
C3_BlankQRejected ==
    \A d \in done :
        BlankQ(d.req)
        => /\ d.resp.status = 400
           /\ d.resp.jsonBody.error # ""

C3_Witness ==
    \E d \in done :
        /\ HasParam(d.req, ParamQ)
        /\ RawParam(d.req, ParamQ) = <<" ", " ">>
        /\ HasParam(d.req, ParamK)
        /\ RawParam(d.req, ParamK) = <<"5">>
        /\ d.resp.status = 400

C5_AtMostKSorted ==
    \A d \in done :
        Success(d)
        => /\ Len(d.resp.jsonBody.results) <= d.resp.jsonBody.k
           /\ SortedByDistance(d.resp.jsonBody.results)

C5_Witness ==
    \E d \in done :
        /\ Success(d)
        /\ d.resp.jsonBody.k = 1
        /\ Cardinality(index) > 1

\* C6: a request with a non-empty q against an index that holds no entries is
\* answered with success and an empty results list, not with an error.
C6_EmptyIndexNoError ==
    \A d \in done :
        (index = {} /\ ~BlankQ(d.req))
        => Success(d) /\ d.resp.jsonBody.results = <<>>

C6_Witness ==
    \E d \in done :
        /\ index = {}
        /\ ~BlankQ(d.req)
        /\ Success(d)
        /\ d.resp.jsonBody.results = <<>>

----------------------------------------------------------------------------
(* Claims about concurrent requests *)

\* C7: a query is read-only: no step of any interleaving of requests changes the
\* index, and two requests with the same parameters get the same response
\* whatever was handled before or between them.
C7_QueriesReadOnly ==
    [][/\ index' = index
       /\ \A x \in done', y \in done' : x.req = y.req => x.resp = y.resp]_vars

C7_Witness ==
    /\ Cardinality(done) >= 2
    /\ BagCardinality(pending) >= 2
    /\ index # {}

----------------------------------------------------------------------------
(* Claims about the search form *)

\* C8: at most one request of the form is in flight at any time: while loading
\* is true neither a click on Search nor Enter in the query input starts a
\* second one.
C8_AtMostOneInFlight == BagCardinality(inflight) <= 1

\* C9: every request onSearch issues is accepted by the handler: its q is
\* non-empty after trimming, so the handler answers 200 and never 400, and its
\* k is in 1..25 and is the k the handler returns.
C9_FormRequestsAccepted ==
    \A f \in BagToSet(inflight) :
        LET query == ParseQuery(f.url)
            resp == search(query)
        IN  /\ ~BlankQ(query)
            /\ f.kk \in 1..25
            /\ resp.status = 200
            /\ resp.jsonBody.k = f.kk

C9_Witness ==
    \E f \in BagToSet(inflight) :
        /\ f.qq = <<"+", "&">>
        /\ f.kk = 25
        /\ k = Number(<<"9", "9">>)

FailureSettles ==
    \E f \in BagToSet(inflight) : FetchResolvesNotOk(f) \/ FetchRejects(f)

\* C10: a call of onSearch that sent a request sets loading to false when the
\* request settles, whatever the outcome, and so loading never stays true for
\* ever; a failed request leaves a non-empty error and empty results; a call
\* with a blank q sends nothing and leaves loading, error and results as they
\* were.
C10_LoadingCleared ==
    /\ [][SettleSome => loading' = FALSE]_vars
    /\ [][FailureSettles => (error' # <<>> /\ results' = <<>>)]_vars
    /\ [][(PressEnter /\ trim(q) = <<>>)
            => UNCHANGED <<loading, error, results, inflight>>]_vars
    /\ (loading ~> ~loading)

C10_Witness ==
    /\ last = "sent"
    /\ inflight = EmptyBag
    /\ ~loading
    /\ error = <<"Failed to fetch">>
    /\ results = <<>>

====
